---- MODULE Spec2Model ----
(***************************************************************************)
(* Driver-instruction resolution of the Connect Cloud MCP server:          *)
(* normalizeDriverName, the InstructionsCache singleton and the            *)
(* getInstructions fallback chain (cache -> external API -> local JSON     *)
(* file -> generic.json).                                                  *)
(* Beside it: transport selection at startup, the session map of the HTTP  *)
(* transport, and the file-map getInstructions of cache.ts.                *)
(*                                                                         *)
(* JavaScript strings are modelled as sequences of one-character strings,  *)
(* so that toLowerCase and the /[^a-z0-9]/g replacement are computed.      *)
(* Time is Date.now() in milliseconds.                                     *)
(***************************************************************************)
EXTENDS Integers, Sequences, FiniteSets, TLC

\* ------------------------------------------------------- string primitives
UpperChars ==
  <<"A","B","C","D","E","F","G","H","I","J","K","L","M",
    "N","O","P","Q","R","S","T","U","V","W","X","Y","Z">>

LowerChars ==
  <<"a","b","c","d","e","f","g","h","i","j","k","l","m",
    "n","o","p","q","r","s","t","u","v","w","x","y","z">>

DigitChars == <<"0","1","2","3","4","5","6","7","8","9">>

Range(s) == { s[i] : i \in 1..Len(s) }

\* String.prototype.toLowerCase on one character
lowerChar(c) ==
  IF \E k \in 1..26 : UpperChars[k] = c
  THEN LowerChars[CHOOSE k \in 1..26 : UpperChars[k] = c]
  ELSE c

\* the characters that occur in driver names
Alphabet ==
  Range(UpperChars) \cup Range(LowerChars) \cup Range(DigitChars)
    \cup {" ", "-", "_", ".", "/"}

\* lowerChar, tabulated
LowerMap == [c \in Alphabet |-> lowerChar(c)]

\* String.prototype.toLowerCase
toLowerCase(s) == [i \in 1..Len(s) |-> LowerMap[s[i]]]

\* the character class [a-z0-9]
AZ09 == Range(LowerChars) \cup Range(DigitChars)

isAZ09(c) == c \in AZ09

\* s.replace(/[^a-z0-9]/g, '')
stripNonAZ09(s) == SelectSeq(s, isAZ09)

\* ------------------------------------------------------------ identifiers
AZURE_DEVOPS == <<"a","z","u","r","e","-","d","e","v","o","p","s">>
SHAREPOINT == <<"s","h","a","r","e","p","o","i","n","t">>
SALESFORCE == <<"s","a","l","e","s","f","o","r","c","e">>
DYNAMICS_365 == <<"d","y","n","a","m","i","c","s","-","3","6","5">>
SERVICENOW == <<"s","e","r","v","i","c","e","n","o","w">>
ORACLE_SERVICE_CLOUD ==
  <<"o","r","a","c","l","e","-","s","e","r","v","i","c","e","-","c","l","o","u","d">>
HUBSPOT == <<"h","u","b","s","p","o","t">>
JIRA == <<"j","i","r","a">>
QUICKBOOKS == <<"q","u","i","c","k","b","o","o","k","s">>
NETSUITE == <<"n","e","t","s","u","i","t","e">>
GENERIC == <<"g","e","n","e","r","i","c">>

\* const DRIVER_ALIASES: Record<string, string>
DRIVER_ALIASES ==
  ( <<"a","z","u","r","e","d","e","v","o","p","s">> :> AZURE_DEVOPS ) @@
  ( <<"v","s","t","s">> :> AZURE_DEVOPS ) @@
  ( <<"t","f","s">> :> AZURE_DEVOPS ) @@
  ( SHAREPOINT :> SHAREPOINT ) @@
  ( <<"s","h","a","r","e","p","o","i","n","t","o","n","l","i","n","e">> :> SHAREPOINT ) @@
  ( SALESFORCE :> SALESFORCE ) @@
  ( <<"s","f","d","c">> :> SALESFORCE ) @@
  ( <<"d","y","n","a","m","i","c","s","3","6","5">> :> DYNAMICS_365 ) @@
  ( <<"d","y","n","a","m","i","c","s">> :> DYNAMICS_365 ) @@
  ( SERVICENOW :> SERVICENOW ) @@
  ( <<"s","n","o","w">> :> SERVICENOW ) @@
  ( <<"o","r","a","c","l","e">> :> ORACLE_SERVICE_CLOUD ) @@
  ( <<"o","s","c">> :> ORACLE_SERVICE_CLOUD ) @@
  ( HUBSPOT :> HUBSPOT ) @@
  ( JIRA :> JIRA ) @@
  ( QUICKBOOKS :> QUICKBOOKS ) @@
  ( <<"q","b">> :> QUICKBOOKS ) @@
  ( NETSUITE :> NETSUITE )

\* Property names every object literal inherits from Object.prototype.
ObjectPrototypeKeys ==
  { <<"c","o","n","s","t","r","u","c","t","o","r">>,
    <<"t","o","S","t","r","i","n","g">>,
    <<"v","a","l","u","e","O","f">>,
    <<"h","a","s","O","w","n","P","r","o","p","e","r","t","y">> }

\* The (truthy, non-string) value an inherited property reads as.
ObjectFunction == <<"[Function]">>

\* JavaScript undefined, as the result of a property read.
Undefined == <<"undefined">>

\* DRIVER_ALIASES[key]: own property, else inherited property, else undefined
aliasLookup(key) ==
  IF key \in DOMAIN DRIVER_ALIASES THEN DRIVER_ALIASES[key]
  ELSE IF key \in ObjectPrototypeKeys THEN ObjectFunction
  ELSE Undefined

\* typeof v === 'string'
isString(v) == v # ObjectFunction /\ v # Undefined

\* JavaScript truthiness of a property read (the empty string is falsy)
truthy(v) == v # Undefined /\ v # <<>>

\* normalizeDriverName that lowercases and looks up, without the replace
normalizeDriverNameNoStrip(driverName) ==
  LET normalized == toLowerCase(driverName)
  IN  IF truthy(aliasLookup(normalized)) THEN aliasLookup(normalized) ELSE normalized

\* normalizeDriverName with a blank left in the character class
normalizeDriverNameKeepsBlanks(driverName) ==
  LET normalized ==
        SelectSeq(toLowerCase(driverName), LAMBDA c : isAZ09(c) \/ c = " ")
  IN  IF truthy(aliasLookup(normalized)) THEN aliasLookup(normalized) ELSE normalized

\* function normalizeDriverName(driverName)
normalizeDriverName(driverName) ==
  LET normalized == stripNonAZ09(toLowerCase(driverName))
  IN  IF truthy(aliasLookup(normalized)) THEN aliasLookup(normalized) ELSE normalized

\* -------------------------------------------------------------- documents
\* A DriverInstructions value: the driverName field and the rest of the
\* document (body).  NoDoc is JavaScript null.
NoDoc == [driverName |-> <<>>, body |-> "null"]

\* Marker for "the awaited call rejected" (caught by getInstructions' catch).
Thrown == [driverName |-> <<>>, body |-> "throw"]

\* ------------------------------------------------------ InstructionsCache
\* private defaultTTL = 15 * 60 * 1000
defaultTTL == 15 * 60 * 1000

\* the ttl argument left out (undefined)
NoTTL == -1

\* cacheGet with the expiry test written >= instead of >
cacheGetExpiresAtTtl(c, driverName, t) ==
  LET k == toLowerCase(driverName)
  IN  IF k \notin DOMAIN c THEN [value |-> NoDoc, cache |-> c]
      ELSE IF t - c[k].timestamp >= c[k].ttl
           THEN [value |-> NoDoc,
                 cache |-> [x \in (DOMAIN c) \ {k} |-> c[x]]]
           ELSE [value |-> c[k].data, cache |-> c]

\* cacheGet that restarts the entry's life on a hit
cacheGetTouches(c, driverName, t) ==
  LET k == toLowerCase(driverName)
  IN  IF k \notin DOMAIN c THEN [value |-> NoDoc, cache |-> c]
      ELSE IF t - c[k].timestamp > c[k].ttl
           THEN [value |-> NoDoc,
                 cache |-> [x \in (DOMAIN c) \ {k} |-> c[x]]]
           ELSE [value |-> c[k].data,
                 cache |-> [c EXCEPT ![k].timestamp = t]]

\* cacheGet that first drops every expired entry, then looks up
cacheGetSweeps(c, driverName, t) ==
  LET k == toLowerCase(driverName)
      swept == [x \in { y \in DOMAIN c : ~(t - c[y].timestamp > c[y].ttl) } |-> c[x]]
  IN  IF k \notin DOMAIN swept THEN [value |-> NoDoc, cache |-> swept]
      ELSE [value |-> swept[k].data, cache |-> swept]

\* cacheGet without the expiry test
cacheGetNeverExpires(c, driverName, t) ==
  LET k == toLowerCase(driverName)
  IN  IF k \notin DOMAIN c THEN [value |-> NoDoc, cache |-> c]
      ELSE [value |-> c[k].data, cache |-> c]

\* cacheGet that answers null for an expired entry and leaves it in the map
cacheGetKeepsExpired(c, driverName, t) ==
  LET k == toLowerCase(driverName)
  IN  IF k \notin DOMAIN c THEN [value |-> NoDoc, cache |-> c]
      ELSE IF t - c[k].timestamp > c[k].ttl
           THEN [value |-> NoDoc, cache |-> c]
           ELSE [value |-> c[k].data, cache |-> c]

\* InstructionsCache.get: the returned document and the map afterwards
cacheGet(c, driverName, t) ==
  LET k == toLowerCase(driverName)
  IN  IF k \notin DOMAIN c THEN [value |-> NoDoc, cache |-> c]
      ELSE IF t - c[k].timestamp > c[k].ttl
           THEN [value |-> NoDoc,
                 cache |-> [x \in (DOMAIN c) \ {k} |-> c[x]]]
           ELSE [value |-> c[k].data, cache |-> c]

\* cacheSet that updates the data of an entry already there in place
cacheSetMerges(c, driverName, data, ttl, t) ==
  LET k == toLowerCase(driverName)
      e == [data |-> data,
            timestamp |-> IF k \in DOMAIN c THEN c[k].timestamp ELSE t,
            ttl |-> IF k \in DOMAIN c THEN c[k].ttl
                    ELSE IF ttl = NoTTL \/ ttl = 0 THEN defaultTTL ELSE ttl]
  IN  [x \in (DOMAIN c) \cup {k} |-> IF x = k THEN e ELSE c[x]]

\* cacheSet keyed by driverName as given, not lowercased
cacheSetKeepsCase(c, driverName, data, ttl, t) ==
  LET k == driverName
      e == [data |-> data,
            timestamp |-> t,
            ttl |-> IF ttl = NoTTL \/ ttl = 0 THEN defaultTTL ELSE ttl]
  IN  [x \in (DOMAIN c) \cup {k} |-> IF x = k THEN e ELSE c[x]]

\* InstructionsCache.set
cacheSet(c, driverName, data, ttl, t) ==
  LET k == toLowerCase(driverName)
      e == [data |-> data,
            timestamp |-> t,
            ttl |-> IF ttl = NoTTL \/ ttl = 0 THEN defaultTTL ELSE ttl]
  IN  [x \in (DOMAIN c) \cup {k} |-> IF x = k THEN e ELSE c[x]]

\* InstructionsCache.size
cacheSize(c) == Cardinality(DOMAIN c)

\* cacheCleanup that measures every entry against defaultTTL
cacheCleanupDefaultTtl(c, t) ==
  [x \in { k \in DOMAIN c : ~(t - c[k].timestamp > defaultTTL) } |-> c[x]]

\* InstructionsCache.cleanup
cacheCleanup(c, t) ==
  [x \in { k \in DOMAIN c : ~(t - c[k].timestamp > c[k].ttl) } |-> c[x]]

\* setInterval(..., 5 * 60 * 1000)
cleanupInterval == 5 * 60 * 1000

\* ------------------------------------------------------------- file paths
\* A path is the sequence of its segments.
\* path.join(__dirname, 'driverInstructions')
InstructionsDir == << <<"__dirname">>, <<"driverInstructions">> >>

\* s.split('/')
RECURSIVE splitPath(_)
splitPath(s) ==
  IF \A i \in 1..Len(s) : s[i] # "/" THEN << s >>
  ELSE LET j == CHOOSE i \in 1..Len(s) :
                  s[i] = "/" /\ \A h \in 1..(i - 1) : s[h] # "/"
       IN  << SubSeq(s, 1, j - 1) >> \o splitPath(SubSeq(s, j + 1, Len(s)))

\* path.join's normalisation: empty and "." segments are dropped, ".." goes
\* up one directory
RECURSIVE pathJoin(_, _)
pathJoin(base, segs) ==
  IF segs = << >> THEN base
  ELSE IF Head(segs) \in { << >>, <<".">> } THEN pathJoin(base, Tail(segs))
  ELSE IF Head(segs) = <<".", ".">>
       THEN pathJoin(IF base = << >> THEN base ELSE SubSeq(base, 1, Len(base) - 1),
                     Tail(segs))
  ELSE pathJoin(Append(base, Head(segs)), Tail(segs))

\* path.join(__dirname, 'driverInstructions', `${driverName}.json`)
instructionsPath(driverName) ==
  pathJoin(InstructionsDir, splitPath(driverName \o <<".", "j", "s", "o", "n">>))

\* ------------------------------------------------------------- local tier
\* The packaged driverInstructions directory (file names without .json).
PackagedFiles ==
  { AZURE_DEVOPS, SALESFORCE, SHAREPOINT, DYNAMICS_365, SERVICENOW,
    ORACLE_SERVICE_CLOUD, HUBSPOT, JIRA, QUICKBOOKS, NETSUITE, GENERIC }

FileStates == {"ok", "missing", "malformed"}

\* The document a well-formed packaged file parses to.
fileDocument(name) == [driverName |-> name, body |-> "local"]

\* async function loadLocalInstructions(driverName)
loadLocalInstructions(fs, driverName) ==
  IF driverName \notin DOMAIN fs \/ fs[driverName] = "missing" THEN NoDoc
  ELSE IF fs[driverName] = "malformed" THEN NoDoc
  ELSE fileDocument(driverName)

\* async function loadGenericInstructions()
loadGenericInstructions(fs) == loadLocalInstructions(fs, GENERIC)

\* ------------------------------------------------------------ remote tier
\* What one fetch of /driver-instructions/<id> can come back with:
\* status 0 is a rejected fetch (network error); json says whether
\* response.json() parses; data is the parsed body.
RemoteBodies == {"remote-1"}

RemoteOutcomes(driverName) ==
  { [status |-> 0, json |-> FALSE, data |-> NoDoc],
    [status |-> 404, json |-> FALSE, data |-> NoDoc],
    [status |-> 500, json |-> FALSE, data |-> NoDoc],
    [status |-> 200, json |-> FALSE, data |-> NoDoc],
    [status |-> 200, json |-> TRUE, data |-> NoDoc],
    [status |-> 200, json |-> TRUE,
     data |-> [driverName |-> GENERIC, body |-> "remote-1"]] }
  \cup
  { [status |-> 200, json |-> TRUE,
     data |-> [driverName |-> driverName, body |-> b]] : b \in RemoteBodies }

\* the configuration test with && in place of ||
apiConfiguredEither(url, key) == url \/ key

\* if (!INSTRUCTIONS_API_URL || !INSTRUCTIONS_API_KEY) return null
apiConfigured(url, key) == url /\ key

\* how a settled fetch reads in the logs
remoteCause(o) ==
  IF o.status = 0 THEN "network error"
  ELSE IF o.status # 200 THEN (IF o.status = 404 THEN "status 404" ELSE "status 500")
  ELSE IF ~o.json THEN "invalid JSON"
  ELSE IF o.data = NoDoc THEN "JSON null" ELSE "document"

\* how a packaged file reads
localCause(fs, driverName) ==
  IF driverName \notin DOMAIN fs THEN "missing" ELSE fs[driverName]

\* The log record a tier function writes before it returns: log() with
\* source 'api' after response.json() resolved, error() with source 'api' in
\* the catch block, nothing on 404 or without configuration; log() with
\* source 'local' after JSON.parse, error() in the catch block, nothing for
\* a missing file.  stage is where getInstructions resumes, why how the tier
\* call ended, name its driverName argument.
tierRecord(stage, why, name) ==
  IF stage = "afterRemote"
  THEN IF why \in {"document", "JSON null"}
       THEN [level |-> "info", source |-> "api", driverName |-> name]
       ELSE IF why \in {"network error", "status 500", "invalid JSON"}
       THEN [level |-> "error", source |-> "api", driverName |-> name]
       ELSE [level |-> "none", source |-> "", driverName |-> name]
  ELSE IF why = "ok"
       THEN [level |-> "info", source |-> "local", driverName |-> name]
       ELSE IF why = "malformed"
       THEN [level |-> "error", source |-> "local", driverName |-> name]
       ELSE [level |-> "none", source |-> "", driverName |-> name]

\* fetchApiInstructions with the `throw new Error(API Error)` outside the try
fetchApiInstructionsRethrows(o) ==
  IF o.status = 0 THEN NoDoc
  ELSE IF o.status # 200
       THEN (IF o.status = 404 THEN NoDoc ELSE Thrown)
       ELSE IF ~o.json THEN NoDoc ELSE o.data

\* fetchApiInstructions after the fetch settled: every failure is caught
\* and becomes null
fetchApiInstructions(o) ==
  IF o.status = 0 THEN NoDoc
  ELSE IF o.status # 200
       THEN (IF o.status = 404 THEN NoDoc ELSE NoDoc)
       ELSE IF ~o.json THEN NoDoc ELSE o.data

\* ------------------------------------------------------------------ bounds
StepMs == 300000

\* the values of Date.now() at which the run is observed
Instants == {0, StepMs, 2 * StepMs, 4 * StepMs}

\* the getInstructions calls of one run, in the order they are made
CallOrder == <<"p1", "p2">>

Procs == Range(CallOrder)

\* ------------------------------------------------------------ driver names
\* Raw driverName arguments the callers pass.
RAW_VSTS == <<"V","S","T","S">>
RAW_TFS == <<"T","F","S">>
RAW_VSTS_SPACE == <<"v","s","t","s"," ">>
RAW_AZURE_DEVOPS_SERVICES ==
  <<"A","z","u","r","e"," ","D","e","v","O","p","s"," ",
    "S","e","r","v","i","c","e","s">>
RAW_CONSTRUCTOR == <<"c","o","n","s","t","r","u","c","t","o","r">>
RAW_UNKNOWN == <<"M","y","_","D","B",".","2">>
RAW_EMPTY == <<>>

RawNames ==
  { RAW_VSTS, RAW_TFS, RAW_VSTS_SPACE, AZURE_DEVOPS,
    RAW_AZURE_DEVOPS_SERVICES, GENERIC, RAW_EMPTY, RAW_CONSTRUCTOR }

\* ------------------------------------------------------------------ state
VARIABLES
  cache,         \* InstructionsCache.cache : key -> CacheEntry
  now,           \* Date.now()
  files,         \* state of each packaged file
  apiUrl,        \* INSTRUCTIONS_API_URL is set
  apiKey,        \* INSTRUCTIONS_API_KEY is set
  pc,            \* where each getInstructions call stands
  driverName,    \* its driverName argument
  instructions,  \* its local variable instructions
  response,      \* the ApiResponse it returned
  logged,        \* the source field of the log record it wrote
  tiers,         \* history: the tiers it called, with what each returned
  stored,        \* history: the CacheEntry it wrote, and its rank among writes
  evicted,       \* history: its cache lookup deleted an expired entry
  cause,         \* history: how the tier call it is resuming from ended
  input,         \* argument of a stand-alone normalizeDriverName call
  output,        \* what that call returned
  lastOp,        \* the latest direct call of an InstructionsCache method
  currentRequestId,  \* global.currentRequestId
  requestId,     \* the id of the JSON-RPC request behind each call
  responseId,    \* the id field of the ApiResponse it returned
  transportType, \* process.env.TRANSPORT_TYPE
  started,       \* the transports setupTransport has set up
  transports,    \* httpTransport's map: session id -> transport
  created,       \* the StreamableHTTPServerTransport objects constructed
  connected,     \* the transports handed to server.connect, in order
  lastReq,       \* the latest request to /mcp and how it was answered
  dataFiles,     \* state of each file of the data directory
  fileMapName,   \* driverName argument of the file-map getInstructions
  fileMapResponse \* what that call returned

vars ==
  <<cache, now, files, apiUrl, apiKey,
    pc, driverName, instructions, response, logged, tiers, stored, evicted,
    cause, input, output, lastOp, currentRequestId, requestId, responseId,
    transportType, started, transports, created, connected, lastReq,
    dataFiles, fileMapName, fileMapResponse>>

\* the transport layer
http == <<transportType, started, transports, created, connected, lastReq>>

\* the file-map getInstructions
fileMap == <<dataFiles, fileMapName, fileMapResponse>>

\* the request ids as the transports keep them
ids == <<currentRequestId, requestId>>

\* what no step of getInstructions, the clock or the sweep writes
env == <<files, apiUrl, apiKey, input, output, lastOp, ids, http, fileMap>>

\* output before normalizeDriverName has returned
NotNormalized == <<"pending">>

NoResponse == [kind |-> "none", result |-> NoDoc, message |-> "", name |-> <<>>]

NotStored == [data |-> NoDoc, timestamp |-> 0, ttl |-> 0, seq |-> 0]

\* JSON null as a request id
NullId == -1

\* `if (parsed && parsed.id)`, `global.currentRequestId || null`: 0 is falsy
idTruthy(id) == id # NullId /\ id # 0

\* id: global.currentRequestId || null
envelopeId(current) == IF idTruthy(current) THEN current ELSE NullId

\* lastReq before any request has arrived
NoRequest ==
  [method |-> "none", sessionId |-> Undefined, initialize |-> FALSE,
   status |-> 0, routed |-> 0]

\* before setupTransport has run
ServerDown ==
  /\ transportType = Undefined
  /\ started = {}
  /\ transports = << >>
  /\ created = << >>
  /\ connected = << >>
  /\ lastReq = NoRequest

\* the files of the data directory
AZURE_DEVOPS_JSON == AZURE_DEVOPS \o <<".","j","s","o","n">>
GENERIC_JSON == GENERIC \o <<".","j","s","o","n">>

DataFiles == {AZURE_DEVOPS_JSON, GENERIC_JSON}

\* fileMapResponse before the call
NotCalled ==
  [success |-> FALSE, code |-> "none", file |-> Undefined,
   driverMatched |-> FALSE, threw |-> FALSE]

\* before the file-map getInstructions is called
FileMapIdle ==
  /\ dataFiles = [n \in DataFiles |-> "ok"]
  /\ fileMapName = Undefined
  /\ fileMapResponse = NotCalled

\* lastOp before any method of the cache was called directly
NoCall ==
  [op |-> "none", key |-> <<>>, data |-> NoDoc, ttl |-> NoTTL, at |-> 0,
   ret |-> NoDoc, n |-> 0, before |-> 0]

\* return { jsonrpc: '2.0', result: ..., id: ... }
resultEnvelope(doc) ==
  [kind |-> "result", result |-> doc, message |-> "", name |-> <<>>]

\* return { jsonrpc: '2.0', error: { code: -32000, message: ... }, id: ... }
errorEnvelope(message, name) ==
  [kind |-> "error", result |-> NoDoc, message |-> message, name |-> name]

\* normalizeDriverName over the driver names in use
NormTable == [r \in RawNames |-> normalizeDriverName(r)]

\* const normalizedDriverName = normalizeDriverName(driverName)
normalizedDriverName(p) == NormTable[driverName[p]]

Init ==
  /\ cache = << >>
  /\ now = 0
  /\ files \in { f \in [PackagedFiles -> FileStates] :
                   /\ \A n \in PackagedFiles \ {AZURE_DEVOPS, GENERIC} : f[n] = "ok"
                   /\ (f[AZURE_DEVOPS] = "ok" \/ f[GENERIC] = "ok") }
  /\ apiUrl \in BOOLEAN
  /\ apiKey \in BOOLEAN
  /\ pc = [p \in Procs |-> "idle"]
  /\ driverName = [p \in Procs |-> <<>>]
  /\ instructions = [p \in Procs |-> NoDoc]
  /\ response = [p \in Procs |-> NoResponse]
  /\ logged = [p \in Procs |-> "none"]
  /\ tiers = [p \in Procs |-> << >>]
  /\ stored = [p \in Procs |-> NotStored]
  /\ evicted = [p \in Procs |-> FALSE]
  /\ cause = [p \in Procs |-> ""]
  /\ input = << >>
  /\ output = NotNormalized
  /\ lastOp = NoCall
  /\ currentRequestId = NullId
  /\ requestId = [p \in Procs |-> NullId]
  /\ responseId = [p \in Procs |-> NullId]
  /\ ServerDown
  /\ FileMapIdle

\* the catch block of getInstructions
Catch(p, message, name) ==
  /\ response' = [response EXCEPT ![p] = errorEnvelope(message, name)]
  /\ responseId' = [responseId EXCEPT ![p] = envelopeId(currentRequestId')]
  /\ pc' = [pc EXCEPT ![p] = "done"]
  /\ logged' = [logged EXCEPT ![p] = "error"]
  /\ cause' = [cause EXCEPT ![p] = ""]
  /\ UNCHANGED stored

\* Store keyed by the raw driverName argument
StoreRawKey(p, doc) ==
  LET cacheTTL == IF doc.driverName = GENERIC THEN 5 * 60 * 1000 ELSE NoTTL
      after == cacheSet(cache, driverName[p], doc, cacheTTL, now)
      e == after[toLowerCase(driverName[p])]
  IN  /\ cache' = after
      /\ stored' = [stored EXCEPT ![p] =
            [data |-> e.data, timestamp |-> e.timestamp, ttl |-> e.ttl,
             seq |-> 1 + Cardinality({q \in Procs : stored[q].seq > 0})]]
      /\ logged' = [logged EXCEPT ![p] =
                      IF doc.driverName = GENERIC THEN "generic" ELSE "specific"]
      /\ response' = [response EXCEPT ![p] = resultEnvelope(doc)]
      /\ responseId' = [responseId EXCEPT ![p] = envelopeId(currentRequestId')]
      /\ pc' = [pc EXCEPT ![p] = "done"]
      /\ cause' = [cause EXCEPT ![p] = ""]

\* Store keyed by the stripped lowercase name, before the alias lookup
StoreAliasKey(p, doc) ==
  LET cacheTTL == IF doc.driverName = GENERIC THEN 5 * 60 * 1000 ELSE NoTTL
      alias == stripNonAZ09(toLowerCase(driverName[p]))
      after == cacheSet(cache, alias, doc, cacheTTL, now)
      e == after[toLowerCase(alias)]
  IN  /\ cache' = after
      /\ stored' = [stored EXCEPT ![p] =
            [data |-> e.data, timestamp |-> e.timestamp, ttl |-> e.ttl,
             seq |-> 1 + Cardinality({q \in Procs : stored[q].seq > 0})]]
      /\ logged' = [logged EXCEPT ![p] =
                      IF doc.driverName = GENERIC THEN "generic" ELSE "specific"]
      /\ response' = [response EXCEPT ![p] = resultEnvelope(doc)]
      /\ responseId' = [responseId EXCEPT ![p] = envelopeId(currentRequestId')]
      /\ pc' = [pc EXCEPT ![p] = "done"]
      /\ cause' = [cause EXCEPT ![p] = ""]

\* Store whose log record always says source 'specific'
StoreLogsSpecific(p, doc) ==
  LET cacheTTL == IF doc.driverName = GENERIC THEN 5 * 60 * 1000 ELSE NoTTL
      after == cacheSet(cache, normalizedDriverName(p), doc, cacheTTL, now)
      e == after[toLowerCase(normalizedDriverName(p))]
  IN  /\ cache' = after
      /\ stored' = [stored EXCEPT ![p] =
            [data |-> e.data, timestamp |-> e.timestamp, ttl |-> e.ttl,
             seq |-> 1 + Cardinality({q \in Procs : stored[q].seq > 0})]]
      /\ logged' = [logged EXCEPT ![p] = "specific"]
      /\ response' = [response EXCEPT ![p] = resultEnvelope(doc)]
      /\ responseId' = [responseId EXCEPT ![p] = envelopeId(currentRequestId')]
      /\ pc' = [pc EXCEPT ![p] = "done"]
      /\ cause' = [cause EXCEPT ![p] = ""]

\* Store that never passes a ttl
StoreDefaultTtl(p, doc) ==
  LET after == cacheSet(cache, normalizedDriverName(p), doc, NoTTL, now)
      e == after[toLowerCase(normalizedDriverName(p))]
  IN  /\ cache' = after
      /\ stored' = [stored EXCEPT ![p] =
            [data |-> e.data, timestamp |-> e.timestamp, ttl |-> e.ttl,
             seq |-> 1 + Cardinality({q \in Procs : stored[q].seq > 0})]]
      /\ logged' = [logged EXCEPT ![p] =
                      IF doc.driverName = GENERIC THEN "generic" ELSE "specific"]
      /\ response' = [response EXCEPT ![p] = resultEnvelope(doc)]
      /\ responseId' = [responseId EXCEPT ![p] = envelopeId(currentRequestId')]
      /\ pc' = [pc EXCEPT ![p] = "done"]
      /\ cause' = [cause EXCEPT ![p] = ""]

\* lines 335-358: throw when there is no document, else cache and return
Store(p, doc) ==
  LET cacheTTL == IF doc.driverName = GENERIC THEN 5 * 60 * 1000 ELSE NoTTL
      after == cacheSet(cache, normalizedDriverName(p), doc, cacheTTL, now)
      e == after[toLowerCase(normalizedDriverName(p))]
  IN  /\ cache' = after
      /\ stored' = [stored EXCEPT ![p] =
            [data |-> e.data, timestamp |-> e.timestamp, ttl |-> e.ttl,
             seq |-> 1 + Cardinality({q \in Procs : stored[q].seq > 0})]]
      /\ logged' = [logged EXCEPT ![p] =
                      IF doc.driverName = GENERIC THEN "generic" ELSE "specific"]
      /\ response' = [response EXCEPT ![p] = resultEnvelope(doc)]
      /\ responseId' = [responseId EXCEPT ![p] = envelopeId(currentRequestId')]
      /\ pc' = [pc EXCEPT ![p] = "done"]
      /\ cause' = [cause EXCEPT ![p] = ""]

\* The transport sees the request before the tool handler runs: the stdin
\* 'data' listener, the express middleware and the /mcp handler each store
\* the id in the global when it is truthy, and leave the global alone when
\* it is not.
Receive(p, id) ==
  /\ requestId' = [requestId EXCEPT ![p] = id]
  /\ currentRequestId' = IF idTruthy(id) THEN id ELSE currentRequestId

\* getInstructions(driverName) up to its first await: normalize, cache
\* lookup, and the call of fetchApiInstructions
Call(p, raw) ==
  /\ pc[p] = "idle"
  /\ \A i \in 1..Len(CallOrder) :
       \A j \in 1..(i - 1) : CallOrder[i] = p => pc[CallOrder[j]] # "idle"
  /\ driverName' = [driverName EXCEPT ![p] = raw]
  /\ instructions' = [instructions EXCEPT ![p] = NoDoc]
  /\ UNCHANGED <<now, files, apiUrl, apiKey, input, output, lastOp, http, fileMap>>
  /\ LET n == NormTable[raw]
     IN  IF ~isString(n)
         THEN \* driverName.toLowerCase is not a function
              /\ Catch(p, "driverName.toLowerCase is not a function", <<>>)
              /\ tiers' = [tiers EXCEPT ![p] = << >>]
              /\ UNCHANGED <<cache, evicted>>
         ELSE LET g == cacheGet(cache, n, now)
              IN  IF g.value # NoDoc
                  THEN /\ response' = [response EXCEPT ![p] = resultEnvelope(g.value)]
                       /\ responseId' = [responseId EXCEPT ![p] = envelopeId(currentRequestId')]
                       /\ logged' = [logged EXCEPT ![p] = "cache"]
                       /\ pc' = [pc EXCEPT ![p] = "done"]
                       /\ tiers' = [tiers EXCEPT ![p] = << >>]
                       /\ cache' = g.cache
                       /\ UNCHANGED <<stored, evicted, cause>>
                  ELSE /\ cache' = g.cache
                       /\ evicted' = [evicted EXCEPT ![p] = (g.cache # cache)]
                       /\ UNCHANGED stored
                       /\ response' = [response EXCEPT ![p] = NoResponse]
                       /\ responseId' = [responseId EXCEPT ![p] = NullId]
                       /\ logged' = [logged EXCEPT ![p] = "none"]
                       /\ IF apiConfigured(apiUrl, apiKey)
                          THEN /\ pc' = [pc EXCEPT ![p] = "fetching"]
                               /\ tiers' = [tiers EXCEPT ![p] = << >>]
                               /\ UNCHANGED cause
                          ELSE /\ pc' = [pc EXCEPT ![p] = "afterRemote"]
                               /\ tiers' = [tiers EXCEPT ![p] =
                                    <<[tier |-> "remote", fetched |-> FALSE,
                                       out |-> NoDoc]>>]
                               /\ cause' = [cause EXCEPT ![p] = "not configured"]

\* a JSON-RPC request with the given id arrives and its handler calls
\* getInstructions
Request(p, id, raw) == Receive(p, id) /\ Call(p, raw)

\* the fetch settles and fetchApiInstructions returns
FetchReply(p, o) ==
  /\ pc[p] = "fetching"
  /\ instructions' = [instructions EXCEPT ![p] = fetchApiInstructions(o)]
  /\ tiers' = [tiers EXCEPT ![p] =
       Append(@, [tier |-> "remote", fetched |-> TRUE,
                  out |-> fetchApiInstructions(o)])]
  /\ cause' = [cause EXCEPT ![p] = remoteCause(o)]
  /\ pc' = [pc EXCEPT ![p] = "afterRemote"]
  /\ UNCHANGED <<cache, now, env, driverName, response, responseId, logged, stored, evicted>>

\* AfterRemote reading the local file of the raw driverName argument
AfterRemoteRawName(p) ==
  /\ pc[p] = "afterRemote"
  /\ UNCHANGED <<now, env, driverName, evicted>>
  /\ IF instructions[p] = Thrown
     THEN /\ Catch(p, "rejected", driverName[p])
          /\ UNCHANGED <<cache, instructions, tiers>>
     ELSE IF instructions[p] = NoDoc
     THEN LET d == loadLocalInstructions(files, toLowerCase(driverName[p]))
          IN  /\ instructions' = [instructions EXCEPT ![p] = d]
              /\ tiers' = [tiers EXCEPT ![p] =
                   Append(@, [tier |-> "local", fetched |-> FALSE, out |-> d])]
              /\ cause' = [cause EXCEPT ![p] =
                   localCause(files, toLowerCase(driverName[p]))]
              /\ pc' = [pc EXCEPT ![p] = "afterLocal"]
              /\ UNCHANGED <<cache, response, responseId, logged, stored>>
     ELSE /\ Store(p, instructions[p])
          /\ UNCHANGED <<instructions, tiers>>

\* AfterRemote without the `if (!instructions)` guard on the local read
AfterRemoteAlwaysLocal(p) ==
  /\ pc[p] = "afterRemote"
  /\ UNCHANGED <<now, env, driverName, evicted>>
  /\ LET d == loadLocalInstructions(files, normalizedDriverName(p))
     IN  /\ instructions' = [instructions EXCEPT ![p] = d]
         /\ tiers' = [tiers EXCEPT ![p] =
              Append(@, [tier |-> "local", fetched |-> FALSE, out |-> d])]
         /\ cause' = [cause EXCEPT ![p] =
              localCause(files, normalizedDriverName(p))]
         /\ pc' = [pc EXCEPT ![p] = "afterLocal"]
         /\ UNCHANGED <<cache, response, responseId, logged, stored>>

\* continuation after `await fetchApiInstructions`
AfterRemote(p) ==
  /\ pc[p] = "afterRemote"
  /\ UNCHANGED <<now, env, driverName, evicted>>
  /\ IF instructions[p] = Thrown
     THEN /\ Catch(p, "rejected", driverName[p])
          /\ UNCHANGED <<cache, instructions, tiers>>
     ELSE IF instructions[p] = NoDoc
     THEN LET d == loadLocalInstructions(files, normalizedDriverName(p))
          IN  /\ instructions' = [instructions EXCEPT ![p] = d]
              /\ tiers' = [tiers EXCEPT ![p] =
                   Append(@, [tier |-> "local", fetched |-> FALSE, out |-> d])]
              /\ cause' = [cause EXCEPT ![p] =
                   localCause(files, normalizedDriverName(p))]
              /\ pc' = [pc EXCEPT ![p] = "afterLocal"]
              /\ UNCHANGED <<cache, response, responseId, logged, stored>>
     ELSE /\ Store(p, instructions[p])
          /\ UNCHANGED <<instructions, tiers>>

\* continuation after `await loadLocalInstructions`
AfterLocal(p) ==
  /\ pc[p] = "afterLocal"
  /\ UNCHANGED <<now, env, driverName, evicted>>
  /\ IF instructions[p] = Thrown
     THEN /\ Catch(p, "rejected", driverName[p])
          /\ UNCHANGED <<cache, instructions, tiers>>
     ELSE IF instructions[p] = NoDoc
     THEN LET d == loadGenericInstructions(files)
          IN  /\ instructions' = [instructions EXCEPT ![p] = d]
              /\ tiers' = [tiers EXCEPT ![p] =
                   Append(@, [tier |-> "generic", fetched |-> FALSE, out |-> d])]
              /\ cause' = [cause EXCEPT ![p] = localCause(files, GENERIC)]
              /\ pc' = [pc EXCEPT ![p] = "afterGeneric"]
              /\ UNCHANGED <<cache, response, responseId, logged, stored>>
     ELSE /\ Store(p, instructions[p])
          /\ UNCHANGED <<instructions, tiers>>

\* AfterGeneric answering with the empty result instead of throwing
AfterGenericEmptyResult(p) ==
  /\ pc[p] = "afterGeneric"
  /\ UNCHANGED <<now, env, driverName, instructions, tiers, evicted>>
  /\ IF instructions[p] = NoDoc
     THEN /\ response' = [response EXCEPT ![p] = resultEnvelope(NoDoc)]
          /\ responseId' = [responseId EXCEPT ![p] = envelopeId(currentRequestId')]
          /\ pc' = [pc EXCEPT ![p] = "done"]
          /\ logged' = [logged EXCEPT ![p] = "specific"]
          /\ cause' = [cause EXCEPT ![p] = ""]
          /\ UNCHANGED <<cache, stored>>
     ELSE Store(p, instructions[p])

\* continuation after `await loadGenericInstructions`
AfterGeneric(p) ==
  /\ pc[p] = "afterGeneric"
  /\ UNCHANGED <<now, env, driverName, instructions, tiers, evicted>>
  /\ IF instructions[p] = Thrown
     THEN /\ Catch(p, "rejected", driverName[p])
          /\ UNCHANGED cache
     ELSE IF instructions[p] = NoDoc
     THEN /\ Catch(p, "No instructions available for driver", driverName[p])
          /\ UNCHANGED cache
     ELSE Store(p, instructions[p])

\* Promise continuations queued as microtasks: they all run before the
\* event loop takes the next timer or lets a measurable time pass.
MicrotasksPending ==
  \E p \in Procs : pc[p] \in {"afterRemote", "afterLocal", "afterGeneric"}

\* the clock advances
Tick ==
  /\ ~MicrotasksPending
  /\ \E t \in Instants : t > now
  /\ now' = CHOOSE t \in Instants : t > now /\ \A u \in Instants : u > now => t <= u
  /\ UNCHANGED <<cache, env, pc, driverName, instructions,
                 response, responseId, logged, tiers, stored, evicted, cause>>

\* Cleanup measuring ages at the clock value of one interval earlier
CleanupStaleClock ==
  /\ ~MicrotasksPending
  /\ now >= cleanupInterval
  /\ cache' = cacheCleanup(cache, now - cleanupInterval)
  /\ UNCHANGED <<now, env, pc, driverName, instructions, response, responseId, logged, tiers,
                 stored, evicted, cause>>

\* the setInterval callback: instructionsCache.cleanup().  The timer first
\* fires one interval after start-up and may fire late; a second sweep at
\* the same clock value changes nothing, so the sweep is enabled at every
\* clock value from the first interval on.
Cleanup ==
  /\ ~MicrotasksPending
  /\ now >= cleanupInterval
  /\ cache' = cacheCleanup(cache, now)
  /\ UNCHANGED <<now, env, pc, driverName, instructions, response, responseId, logged, tiers,
                 stored, evicted, cause>>

Next ==
  \/ \E p \in Procs, raw \in RawNames : Request(p, NullId, raw)
  \/ \E p \in Procs :
       /\ pc[p] = "fetching"
       /\ \E o \in RemoteOutcomes(normalizedDriverName(p)) : FetchReply(p, o)
  \/ \E p \in Procs : AfterRemote(p)
  \/ \E p \in Procs : AfterLocal(p)
  \/ \E p \in Procs : AfterGeneric(p)
  \/ Tick
  \/ Cleanup

Spec == Init /\ [][Next]_vars

\* The event loop: a queued promise continuation runs, and the interval
\* timer, never cleared, keeps firing.
Scheduling ==
  /\ WF_vars(\E p \in Procs : AfterRemote(p))
  /\ WF_vars(\E p \in Procs : AfterLocal(p))
  /\ WF_vars(\E p \in Procs : AfterGeneric(p))
  /\ WF_vars(Cleanup)

\* the runs with every packaged file intact and the remote API configured
LiveInit ==
  /\ Init
  /\ files = [n \in PackagedFiles |-> "ok"]
  /\ apiConfigured(apiUrl, apiKey)

SpecLive == LiveInit /\ [][Next]_vars /\ Scheduling

\* ------------------------------------------------- requests that carry ids
\* the ids of the requests: none, 1, 2
RequestIds == {NullId, 1, 2}

\* the driver names these requests ask for
IdRawNames == {RAW_VSTS, RAW_EMPTY}

IdsNext ==
  \/ \E p \in Procs, id \in RequestIds, raw \in IdRawNames : Request(p, id, raw)
  \/ \E p \in Procs :
       /\ pc[p] = "fetching"
       /\ \E o \in RemoteOutcomes(normalizedDriverName(p)) : FetchReply(p, o)
  \/ \E p \in Procs : AfterRemote(p)
  \/ \E p \in Procs : AfterLocal(p)
  \/ \E p \in Procs : AfterGeneric(p)

SpecIds == LiveInit /\ [][IdsNext]_vars

\* ------------------------------------------- normalizeDriverName on its own
MaxLen == 3

NormAlphabet == {"q", "b", "Q", "B", "7", "-", " "}

RECURSIVE StringsUpTo(_)
StringsUpTo(n) ==
  IF n = 0 THEN { << >> }
  ELSE StringsUpTo(n - 1) \cup
       { Append(s, c) : s \in { t \in StringsUpTo(n - 1) : Len(t) = n - 1 },
                        c \in NormAlphabet }

\* names that try to leave the directory
RAW_TRAVERSAL == <<".", ".", "/", "q">>
RAW_TRAVERSAL_UP == <<".", ".", "/", ".", ".", "/", "V", "S", "T", "S">>

\* the identifiers the alias table maps to
CanonicalIds == { DRIVER_ALIASES[a] : a \in DOMAIN DRIVER_ALIASES }

NormInputs ==
  StringsUpTo(MaxLen) \cup RawNames \cup {RAW_UNKNOWN, DYNAMICS_365}
    \cup {RAW_TRAVERSAL, RAW_TRAVERSAL_UP} \cup CanonicalIds

NormInit ==
  /\ cache = << >>
  /\ now = 0
  /\ files = [n \in PackagedFiles |-> "ok"]
  /\ apiUrl = FALSE
  /\ apiKey = FALSE
  /\ pc = [p \in Procs |-> "idle"]
  /\ driverName = [p \in Procs |-> <<>>]
  /\ instructions = [p \in Procs |-> NoDoc]
  /\ response = [p \in Procs |-> NoResponse]
  /\ logged = [p \in Procs |-> "none"]
  /\ tiers = [p \in Procs |-> << >>]
  /\ stored = [p \in Procs |-> NotStored]
  /\ evicted = [p \in Procs |-> FALSE]
  /\ cause = [p \in Procs |-> ""]
  /\ input \in NormInputs
  /\ output = NotNormalized
  /\ lastOp = NoCall
  /\ currentRequestId = NullId
  /\ requestId = [p \in Procs |-> NullId]
  /\ responseId = [p \in Procs |-> NullId]
  /\ ServerDown
  /\ FileMapIdle

\* one call normalizeDriverName(input)
Normalize ==
  /\ output = NotNormalized
  /\ output' = normalizeDriverName(input)
  /\ UNCHANGED <<cache, now, files, apiUrl, apiKey, pc, driverName, instructions,
                 response, responseId, logged, tiers, stored, evicted, cause, input,
                 lastOp, ids, http, fileMap>>

NormNext == Normalize

SpecNorm == NormInit /\ [][NormNext]_vars

\* ------------------------------------------- InstructionsCache on its own
\* the getInstructions calls' variables, untouched by direct cache calls
resolver ==
  <<pc, driverName, instructions, response, responseId, logged, tiers, stored,
    evicted, cause>>

RAW_JIRA == <<"J","I","R","A">>

\* driverName arguments of the direct calls
CacheKeys == {JIRA, RAW_JIRA, HUBSPOT}

\* data arguments
CacheDocs == {fileDocument(JIRA), fileDocument(GENERIC)}

\* ttl arguments: left out, 0, one millisecond, one clock step
TtlArgs == {NoTTL, 0, 1, StepMs}

CacheInit ==
  /\ cache = << >>
  /\ now = 0
  /\ files = [n \in PackagedFiles |-> "ok"]
  /\ apiUrl = FALSE
  /\ apiKey = FALSE
  /\ pc = [p \in Procs |-> "idle"]
  /\ driverName = [p \in Procs |-> <<>>]
  /\ instructions = [p \in Procs |-> NoDoc]
  /\ response = [p \in Procs |-> NoResponse]
  /\ logged = [p \in Procs |-> "none"]
  /\ tiers = [p \in Procs |-> << >>]
  /\ stored = [p \in Procs |-> NotStored]
  /\ evicted = [p \in Procs |-> FALSE]
  /\ cause = [p \in Procs |-> ""]
  /\ input = << >>
  /\ output = NotNormalized
  /\ lastOp = NoCall
  /\ currentRequestId = NullId
  /\ requestId = [p \in Procs |-> NullId]
  /\ responseId = [p \in Procs |-> NullId]
  /\ ServerDown
  /\ FileMapIdle

\* instructionsCache.get(k)
Get(k) ==
  LET g == cacheGet(cache, k, now)
  IN  /\ cache' = g.cache
      /\ lastOp' = [NoCall EXCEPT !.op = "get", !.key = k, !.at = now,
                                  !.ret = g.value, !.before = cacheSize(cache)]
      /\ UNCHANGED <<now, files, apiUrl, apiKey, input, output, ids, http, fileMap, resolver>>

\* instructionsCache.set(k, d, ttl)
Set(k, d, ttl) ==
  /\ cache' = cacheSet(cache, k, d, ttl, now)
  /\ lastOp' = [NoCall EXCEPT !.op = "set", !.key = k, !.data = d, !.ttl = ttl,
                              !.at = now, !.before = cacheSize(cache)]
  /\ UNCHANGED <<now, files, apiUrl, apiKey, input, output, ids, http, fileMap, resolver>>

\* instructionsCache.clear()
Clear ==
  /\ cache' = << >>
  /\ lastOp' = [NoCall EXCEPT !.op = "clear", !.at = now,
                              !.before = cacheSize(cache)]
  /\ UNCHANGED <<now, files, apiUrl, apiKey, input, output, ids, http, fileMap, resolver>>

\* instructionsCache.size()
Size ==
  /\ lastOp' = [NoCall EXCEPT !.op = "size", !.at = now, !.n = cacheSize(cache),
                              !.before = cacheSize(cache)]
  /\ UNCHANGED <<cache, now, files, apiUrl, apiKey, input, output, ids, http, fileMap, resolver>>

\* instructionsCache.cleanup()
CleanupCall ==
  /\ cache' = cacheCleanup(cache, now)
  /\ lastOp' = [NoCall EXCEPT !.op = "cleanup", !.at = now,
                              !.before = cacheSize(cache)]
  /\ UNCHANGED <<now, files, apiUrl, apiKey, input, output, ids, http, fileMap, resolver>>

CacheNext ==
  \/ \E k \in CacheKeys : Get(k)
  \/ \E k \in CacheKeys, d \in CacheDocs, ttl \in TtlArgs : Set(k, d, ttl)
  \/ Clear
  \/ Size
  \/ CleanupCall
  \/ Tick

SpecCache == CacheInit /\ [][CacheNext]_vars

\* ------------------------------------------------- startup and transports
STDIO == <<"s","t","d","i","o">>
HTTP == <<"h","t","t","p">>
SSE == <<"s","s","e">>

\* values of TRANSPORT_TYPE: unset, empty, "stdio", "http", another word
TransportTypes == {Undefined, << >>, STDIO, HTTP, SSE}

\* setupTransport: which of setupStdioTransport, setupHttpTransport it calls
setupTransport(type) ==
  LET chosen == IF truthy(type) THEN type ELSE STDIO
  IN  IF chosen = STDIO THEN "stdio" ELSE "http"

\* the transports one run may construct
MaxTransports == 2

\* a StreamableHTTPServerTransport as its constructor leaves it
NewTransport == [sessionId |-> Undefined, initialized |-> FALSE, closed |-> FALSE]

\* sessionIdGenerator: crypto.randomUUID(), a fresh id for each transport
sessionIdGenerator(t) == <<"u", DigitChars[t + 1]>>

\* a session id no transport was given
UNKNOWN_SESSION == <<"u", "x">>

\* values of the mcp-session-id header; Undefined when the header is absent
SessionHeaders ==
  {Undefined, RAW_CONSTRUCTOR, UNKNOWN_SESSION}
    \cup { sessionIdGenerator(t) : t \in 1..MaxTransports }

\* transports[sessionId] is truthy: an own or an inherited property
hasProperty(map, sessionId) ==
  sessionId \in DOMAIN map \/ sessionId \in ObjectPrototypeKeys

\* onsessioninitialized: transports[newSessionId] = transport
onsessioninitialized(map, newSessionId, t) == (newSessionId :> t) @@ map

\* transport.onclose that leaves the map as it is
oncloseKeepsEntry(map, transport) == map

\* transport.onclose: delete transports[transport.sessionId]
onclose(map, transport) ==
  IF truthy(transport.sessionId)
  THEN [k \in DOMAIN map \ {transport.sessionId} |-> map[k]]
  ELSE map

\* what a request leaves behind when it changes nothing
answer(map, objs, conn) ==
  [status |-> 0, transports |-> map, created |-> objs, connected |-> conn,
   routed |-> 0]

\* transport.handleRequest(req, res, body) of the SDK: an initialize request
\* starts the session (once) and calls onsessioninitialized; every other
\* request must name the session; DELETE closes the transport, which calls
\* onclose.  When the generator throws the call rejects and the route's catch
\* answers 500.
handleRequest(map, objs, conn, t, method, header, initialize, generated) ==
  LET transport == objs[t]
      same == [answer(map, objs, conn) EXCEPT !.routed = t]
  IN  IF method = "POST" /\ initialize
      THEN IF transport.initialized THEN [same EXCEPT !.status = 400]
           ELSE IF ~generated THEN [same EXCEPT !.status = 500]
           ELSE [same EXCEPT
                   !.status = 200,
                   !.created = [objs EXCEPT ![t].sessionId = sessionIdGenerator(t),
                                            ![t].initialized = TRUE],
                   !.transports =
                     onsessioninitialized(map, sessionIdGenerator(t), t)]
      ELSE IF ~transport.initialized \/ header = Undefined
      THEN [same EXCEPT !.status = 400]
      ELSE IF header # transport.sessionId THEN [same EXCEPT !.status = 404]
      ELSE IF method = "DELETE"
      THEN [same EXCEPT !.status = 200,
                        !.created = [objs EXCEPT ![t].closed = TRUE],
                        !.transports = onclose(map, transport)]
      ELSE [same EXCEPT !.status = 200]

\* app.post('/mcp', ...) after the request id is stored
postMcp(map, objs, conn, header, initialize, connects, generated) ==
  IF truthy(header) /\ hasProperty(map, header)
  THEN IF header \in DOMAIN map
       THEN handleRequest(map, objs, conn, map[header], "POST", header,
                          initialize, generated)
       ELSE \* transport.handleRequest is not a function: the outer catch
            [answer(map, objs, conn) EXCEPT !.status = 500]
  ELSE IF ~truthy(header)
  THEN LET t == Len(objs) + 1
           made == Append(objs, NewTransport)
           tried == Append(conn, t)
       IN  IF ~connects
           THEN [answer(map, made, tried) EXCEPT !.status = 500]
           ELSE handleRequest(map, made, tried, t, "POST", header,
                              initialize, generated)
  ELSE [answer(map, objs, conn) EXCEPT !.status = 400]

\* handleSessionRequest, for GET and DELETE; status 0: the handler's promise
\* rejected and no response was sent
handleSessionRequest(map, objs, conn, method, header) ==
  IF ~truthy(header) \/ ~hasProperty(map, header)
  THEN [answer(map, objs, conn) EXCEPT !.status = 400]
  ELSE IF header \in DOMAIN map
  THEN handleRequest(map, objs, conn, map[header], method, header, FALSE, TRUE)
  ELSE answer(map, objs, conn)


\* what neither startup nor a request to /mcp writes
resolverSide ==
  <<cache, now, files, apiUrl, apiKey, input, output, lastOp, requestId,
    resolver, fileMap>>

\* index.ts: global.currentRequestId = null; setupTransport()
Startup ==
  /\ started = {}
  /\ started' = {setupTransport(transportType)}
  /\ UNCHANGED <<resolverSide, currentRequestId, transportType, transports,
                 created, connected, lastReq>>

\* one request has been answered
Answered(method, header, initialize, a) ==
  /\ transports' = a.transports
  /\ created' = a.created
  /\ connected' = a.connected
  /\ lastReq' = [method |-> method, sessionId |-> header,
                 initialize |-> initialize, status |-> a.status,
                 routed |-> a.routed]

\* POST /mcp with body id `id`; connects: server.connect resolves;
\* generated: the session id generator returns
Post(header, initialize, id, connects, generated) ==
  /\ "http" \in started
  /\ ~truthy(header) => Len(created) < MaxTransports
  /\ currentRequestId' = IF idTruthy(id) THEN id ELSE currentRequestId
  /\ Answered("POST", header, initialize,
              postMcp(transports, created, connected, header, initialize,
                      connects, generated))
  /\ UNCHANGED <<resolverSide, transportType, started>>

\* GET /mcp or DELETE /mcp
SessionRequest(method, header) ==
  /\ "http" \in started
  /\ Answered(method, header, FALSE,
              handleSessionRequest(transports, created, connected, method, header))
  /\ UNCHANGED <<resolverSide, currentRequestId, transportType, started>>

HttpInit ==
  /\ cache = << >>
  /\ now = 0
  /\ files = [n \in PackagedFiles |-> "ok"]
  /\ apiUrl = FALSE
  /\ apiKey = FALSE
  /\ pc = [p \in Procs |-> "idle"]
  /\ driverName = [p \in Procs |-> <<>>]
  /\ instructions = [p \in Procs |-> NoDoc]
  /\ response = [p \in Procs |-> NoResponse]
  /\ logged = [p \in Procs |-> "none"]
  /\ tiers = [p \in Procs |-> << >>]
  /\ stored = [p \in Procs |-> NotStored]
  /\ evicted = [p \in Procs |-> FALSE]
  /\ cause = [p \in Procs |-> ""]
  /\ input = << >>
  /\ output = NotNormalized
  /\ lastOp = NoCall
  /\ currentRequestId = NullId
  /\ requestId = [p \in Procs |-> NullId]
  /\ responseId = [p \in Procs |-> NullId]
  /\ transportType \in TransportTypes
  /\ started = {}
  /\ transports = << >>
  /\ created = << >>
  /\ connected = << >>
  /\ lastReq = NoRequest
  /\ FileMapIdle

HttpNext ==
  \/ Startup
  \/ \E header \in SessionHeaders, initialize \in BOOLEAN, id \in {NullId, 1},
        connects \in BOOLEAN, generated \in BOOLEAN :
       Post(header, initialize, id, connects, generated)
  \/ \E method \in {"GET", "DELETE"}, header \in SessionHeaders :
       SessionRequest(method, header)

SpecHttp == HttpInit /\ [][HttpNext]_vars

\* ------------------------------------- getInstructions over the file map
\* const DRIVER_FILE_MAP: Record<string, string>
DRIVER_FILE_MAP ==
  ( <<"a","z","u","r","e"," ","d","e","v","o","p","s">> :> AZURE_DEVOPS_JSON ) @@
  ( <<"a","z","u","r","e","d","e","v","o","p","s">> :> AZURE_DEVOPS_JSON ) @@
  ( <<"a","z","u","r","e","-","d","e","v","o","p","s">> :> AZURE_DEVOPS_JSON ) @@
  ( <<"a","z","u","r","e","_","d","e","v","o","p","s">> :> AZURE_DEVOPS_JSON ) @@
  ( <<"a","z","u","r","e","d","e","v","o","p","s","v","5",".","0">> :> AZURE_DEVOPS_JSON ) @@
  ( <<"a","z","u","r","e","d","e","v","o","p","s","v","5">> :> AZURE_DEVOPS_JSON ) @@
  ( <<"a","z","u","r","e"," ","d","e","v","o","p","s"," ","s","e","r","v","i","c","e","s">> :> AZURE_DEVOPS_JSON ) @@
  ( <<"a","z","u","r","e"," ","d","e","v","o","p","s"," ","s","e","r","v","e","r">> :> AZURE_DEVOPS_JSON ) @@
  ( <<"t","f","s">> :> AZURE_DEVOPS_JSON ) @@
  ( <<"t","e","a","m"," ","f","o","u","n","d","a","t","i","o","n"," ","s","e","r","v","e","r">> :> AZURE_DEVOPS_JSON ) @@
  ( <<"v","s","t","s">> :> AZURE_DEVOPS_JSON ) @@
  ( <<"v","i","s","u","a","l"," ","s","t","u","d","i","o"," ","t","e","a","m"," ","s","e","r","v","i","c","e","s">> :> AZURE_DEVOPS_JSON ) @@
  ( <<"d","e","v","o","p","s">> :> AZURE_DEVOPS_JSON ) @@
  ( GENERIC :> GENERIC_JSON )

\* DRIVER_FILE_MAP[key]: own property, else inherited property, else undefined
fileMapLookup(key) ==
  IF key \in DOMAIN DRIVER_FILE_MAP THEN DRIVER_FILE_MAP[key]
  ELSE IF key \in ObjectPrototypeKeys THEN ObjectFunction
  ELSE Undefined

\* String.prototype.trim (the blank is the only white space of Alphabet)
RECURSIVE trimStart(_)
trimStart(s) == IF s # << >> /\ Head(s) = " " THEN trimStart(Tail(s)) ELSE s

RECURSIVE trimEnd(_)
trimEnd(s) ==
  IF s # << >> /\ s[Len(s)] = " " THEN trimEnd(SubSeq(s, 1, Len(s) - 1)) ELSE s

trim(s) == trimEnd(trimStart(s))

\* s.replace(/\s+/g, ' ')
RECURSIVE collapseSpaces(_)
collapseSpaces(s) ==
  IF Len(s) <= 1 THEN s
  ELSE IF s[1] = " " /\ s[2] = " " THEN collapseSpaces(Tail(s))
  ELSE <<s[1]>> \o collapseSpaces(Tail(s))

\* the character class [\w\s]
isWordOrSpace(c) ==
  c \in Range(UpperChars) \cup Range(LowerChars) \cup Range(DigitChars)
          \cup {"_", " "}

\* s.replace(/\s+/g, '_') on a string whose runs of blanks were collapsed
RECURSIVE underscoreSpaces(_)
underscoreSpaces(s) ==
  IF s = << >> THEN s
  ELSE IF Head(s) # " " THEN <<Head(s)>> \o underscoreSpaces(Tail(s))
  ELSE <<"_">> \o underscoreSpaces(trimStart(s))

\* String.prototype.includes
includes(s, sub) ==
  \E i \in 0..(Len(s) - Len(sub)) : SubSeq(s, i + 1, i + Len(sub)) = sub

\* function normalizeDriverName of cache.ts
fileMapNormalizeDriverName(name) ==
  underscoreSpaces(
    SelectSeq(collapseSpaces(trim(toLowerCase(name))), isWordOrSpace))

AZURE == <<"a","z","u","r","e">>
DEVOPS == <<"d","e","v","o","p","s">>

\* the branch of getInstructions that picks the file, and the file it picks
selectFile(name) ==
  IF ~truthy(name)
  THEN [fileName |-> GENERIC_JSON, isDriverSpecific |-> FALSE, branch |-> "none"]
  ELSE LET lowerDriverName == trim(toLowerCase(name))
           normalizedName == fileMapNormalizeDriverName(name)
       IN  IF truthy(fileMapLookup(lowerDriverName))
           THEN [fileName |-> fileMapLookup(lowerDriverName),
                 isDriverSpecific |-> TRUE, branch |-> "exact"]
           ELSE IF truthy(fileMapLookup(normalizedName))
           THEN [fileName |-> fileMapLookup(normalizedName),
                 isDriverSpecific |-> TRUE, branch |-> "normalized"]
           ELSE IF includes(lowerDriverName, AZURE) /\ includes(lowerDriverName, DEVOPS)
           THEN [fileName |-> fileMapLookup(AZURE_DEVOPS),
                 isDriverSpecific |-> TRUE, branch |-> "partial"]
           ELSE [fileName |-> GENERIC_JSON, isDriverSpecific |-> FALSE,
                 branch |-> "unknown"]

\* export async function getInstructions(driverName?) of cache.ts
fileMapGetInstructions(name, dfiles) ==
  LET chosen == selectFile(name)
      failed == [NotCalled EXCEPT !.file = chosen.fileName]
  IN  IF ~isString(chosen.fileName)
      THEN \* path.join throws, the catch returns
           [failed EXCEPT !.code = "RETRIEVAL_ERROR"]
      ELSE IF dfiles[chosen.fileName] = "missing"
      THEN [failed EXCEPT !.code = "FILE_NOT_FOUND"]
      ELSE IF dfiles[chosen.fileName] = "malformed"
      THEN [failed EXCEPT !.code = "RETRIEVAL_ERROR"]
      ELSE [success |-> TRUE, code |-> "ok", file |-> chosen.fileName,
            driverMatched |-> chosen.isDriverSpecific, threw |-> FALSE]

\* driverName arguments
RAW_AZURE_DEVOPS_SPACED == <<" "," ","A","z","u","r","e"," "," "," ","D","e","v","O","p","s"," ">>
RAW_AZURE_DOT_DEVOPS == <<"A","z","u","r","e",".","D","e","v","O","p","s">>
RAW_MY_AZURE_DEVOPS == <<"m","y"," ","a","z","u","r","e"," ","d","e","v","o","p","s"," ","2">>
RAW_TFS_DOT == <<"T","F","S",".">>
RAW_TEAM_FOUNDATION_SERVER == <<"T","e","a","m"," "," ","F","o","u","n","d","a","t","i","o","n"," ","S","e","r","v","e","r">>
RAW_BLANK == <<" ">>
RAW_GENERIC_UPPER == <<"G","E","N","E","R","I","C">>

FileMapNames ==
  { Undefined, RAW_EMPTY, RAW_BLANK, RAW_VSTS, RAW_TFS_DOT, AZURE_DEVOPS,
    RAW_AZURE_DEVOPS_SPACED, RAW_AZURE_DOT_DEVOPS, RAW_MY_AZURE_DEVOPS,
    RAW_TEAM_FOUNDATION_SERVER, RAW_AZURE_DEVOPS_SERVICES, SALESFORCE,
    GENERIC, RAW_GENERIC_UPPER, RAW_CONSTRUCTOR }

FileMapInit ==
  /\ cache = << >>
  /\ now = 0
  /\ files = [n \in PackagedFiles |-> "ok"]
  /\ apiUrl = FALSE
  /\ apiKey = FALSE
  /\ pc = [p \in Procs |-> "idle"]
  /\ driverName = [p \in Procs |-> <<>>]
  /\ instructions = [p \in Procs |-> NoDoc]
  /\ response = [p \in Procs |-> NoResponse]
  /\ logged = [p \in Procs |-> "none"]
  /\ tiers = [p \in Procs |-> << >>]
  /\ stored = [p \in Procs |-> NotStored]
  /\ evicted = [p \in Procs |-> FALSE]
  /\ cause = [p \in Procs |-> ""]
  /\ input = << >>
  /\ output = NotNormalized
  /\ lastOp = NoCall
  /\ currentRequestId = NullId
  /\ requestId = [p \in Procs |-> NullId]
  /\ responseId = [p \in Procs |-> NullId]
  /\ ServerDown
  /\ dataFiles \in [DataFiles -> FileStates]
  /\ fileMapName \in FileMapNames
  /\ fileMapResponse = NotCalled

\* one call getInstructions(fileMapName)
GetInstructions ==
  /\ fileMapResponse = NotCalled
  /\ fileMapResponse' = fileMapGetInstructions(fileMapName, dataFiles)
  /\ UNCHANGED <<cache, now, files, apiUrl, apiKey, input, output, lastOp, ids,
                 resolver, http, dataFiles, fileMapName>>

FileMapNext == GetInstructions

SpecFileMap == FileMapInit /\ [][FileMapNext]_vars

\* ================================================================ claims
Done(p) == pc[p] = "done"

\* the call missed the cache and went to the tiers
Cold(p) == tiers[p] # << >>

Last(T) == T[Len(T)]

TierOrder == <<"remote", "local", "generic">>

FiveMinutes == 5 * 60 * 1000
FifteenMinutes == 15 * 60 * 1000

\* C1: a call that misses the cache consults remote, local, generic in that
\* order, each at most once and only while every earlier tier returned
\* nothing, and returns exactly the document of the first tier that yields
\* one (an error only after all three returned nothing).
C1_TierOrder ==
  \A p \in Procs :
    LET T == tiers[p]
    IN  /\ Len(T) <= 3
        /\ \A i \in 1..Len(T) : T[i].tier = TierOrder[i]
        /\ \A i \in 1..(Len(T) - 1) : T[i].out = NoDoc
        /\ (Done(p) /\ Cold(p)) =>
             IF Last(T).out # NoDoc
             THEN response[p] = resultEnvelope(Last(T).out)
             ELSE Len(T) = 3 /\ response[p].kind = "error"

\* a call whose fetch produced nothing and whose local file was returned,
\* generic.json never read
C1_Witness ==
  \E p \in Procs :
    /\ Done(p)
    /\ Len(tiers[p]) = 2
    /\ tiers[p][1].fetched
    /\ tiers[p][2].out # NoDoc
    /\ response[p] = resultEnvelope(tiers[p][2].out)

\* C2: a call that finds an unexpired entry for its canonical identifier
\* returns that entry's document at once, with no fetch, no file read and
\* no change to the cache.
C2_CacheHit ==
  [][ \A p \in Procs :
        (pc[p] = "idle" /\ pc'[p] # "idle") =>
          LET n == NormTable[driverName'[p]]
              k == toLowerCase(n)
          IN  (isString(n) /\ k \in DOMAIN cache
                 /\ now - cache[k].timestamp <= cache[k].ttl) =>
                /\ pc'[p] = "done"
                /\ response'[p] = resultEnvelope(cache[k].data)
                /\ logged'[p] = "cache"
                /\ tiers'[p] = << >>
                /\ stored'[p] = NotStored
                /\ cache' = cache ]_vars

\* a call served from an entry another call stored exactly one ttl earlier
C2_Witness ==
  \E p \in Procs :
    /\ Done(p)
    /\ logged[p] = "cache"
    /\ \E q \in Procs \ {p} :
         /\ stored[q].seq > 0
         /\ response[p] = resultEnvelope(stored[q].data)
         /\ now - stored[q].timestamp = stored[q].ttl

\* the raw names that share the canonical identifier of call p
SameIdentifier(p) == { r \in RawNames : NormTable[r] = normalizedDriverName(p) }

\* another call with the same canonical identifier wrote the cache after p
Overwritten(p) ==
  \E q \in Procs \ {p} :
    /\ normalizedDriverName(q) = normalizedDriverName(p)
    /\ stored[q].seq > stored[p].seq

\* C3 as stated: once a call has stored the document it got from a tier,
\* every resolve of a raw name with the same canonical identifier made within
\* that entry's ttl is served that same document from the cache.
C3_LaterResolveSameDocument ==
  \A p \in Procs :
    (stored[p].seq > 0 /\ now - stored[p].timestamp <= stored[p].ttl) =>
      \A r \in SameIdentifier(p) :
        cacheGet(cache, NormTable[r], now).value = stored[p].data

\* C3 amended: a call that got its document from a tier has stored exactly
\* that document under the canonical identifier by the time it returns, and
\* every resolve of a raw name with the same canonical identifier made within
\* that entry's ttl is served that document from the cache, unless another
\* call for the same identifier, which had missed the cache too, stored its
\* own document afterwards.
C3_StoredBeforeReturn ==
  \A p \in Procs :
    /\ (Done(p) /\ Cold(p) /\ response[p].kind = "result") =>
         /\ stored[p].seq > 0
         /\ stored[p].data = response[p].result
    /\ (stored[p].seq > 0 /\ now - stored[p].timestamp <= stored[p].ttl
          /\ ~Overwritten(p)) =>
         \A r \in SameIdentifier(p) :
           cacheGet(cache, NormTable[r], now).value = stored[p].data

\* a later call under another alias was served the stored document
C3_Witness ==
  \E p \in Procs : \E q \in Procs \ {p} :
    /\ stored[p].seq > 0
    /\ Done(q)
    /\ logged[q] = "cache"
    /\ driverName[q] # driverName[p]
    /\ normalizedDriverName(q) = normalizedDriverName(p)
    /\ response[q] = resultEnvelope(stored[p].data)

\* C4 as stated: a document from the generic tier is cached for 5 minutes, a
\* document from the remote or the local tier for 15 minutes.
C4_TtlByTier ==
  \A p \in Procs :
    stored[p].seq > 0 =>
      stored[p].ttl = IF Last(tiers[p]).tier = "generic"
                      THEN FiveMinutes ELSE FifteenMinutes

\* C4 amended: the ttl follows the document, not the tier: a document whose
\* driverName field is "generic" is cached for 5 minutes and any other for
\* 15 minutes.  The packaged generic.json is therefore cached for 5 minutes
\* from the generic tier and also from the local tier (raw name "generic"),
\* and remote or local documents get 15 minutes unless they name themselves
\* "generic".
C4_TtlByDocument ==
  \A p \in Procs :
    stored[p].seq > 0 =>
      /\ stored[p].ttl = IF stored[p].data.driverName = GENERIC
                         THEN FiveMinutes ELSE FifteenMinutes
      /\ Last(tiers[p]).tier = "generic" => stored[p].ttl = FiveMinutes
      /\ (Last(tiers[p]).tier # "generic" /\ stored[p].data.driverName # GENERIC)
           => stored[p].ttl = FifteenMinutes

\* generic.json read by the local tier and cached for 5 minutes
C4_Witness ==
  \E p \in Procs :
    /\ stored[p].seq > 0
    /\ Last(tiers[p]).tier = "local"
    /\ stored[p].ttl = FiveMinutes

\* C5 as stated: with generic.json missing or unparseable, a call for which
\* cache, remote and local produced nothing returns an error envelope without
\* a document and leaves the cache unchanged.
C5_ErrorLeavesCacheUnchanged ==
  \A p \in Procs :
    (Done(p) /\ files[GENERIC] # "ok" /\ Len(tiers[p]) = 3) =>
      /\ response[p].kind = "error"
      /\ response[p].result = NoDoc
      /\ stored[p] = NotStored
      /\ ~evicted[p]

\* C5 amended: with generic.json missing or unparseable, a call for which
\* cache, remote and local produced nothing returns an error envelope without
\* a document and stores nothing in the cache; the one change it can make to
\* the cache is that its lookup deletes the expired entry of its own
\* identifier.
C5_ErrorStoresNothing ==
  \A p \in Procs :
    (Done(p) /\ files[GENERIC] # "ok" /\ Len(tiers[p]) = 3) =>
      /\ response[p].kind = "error"
      /\ response[p].result = NoDoc
      /\ stored[p] = NotStored

\* an error returned by a call whose lookup had deleted an expired entry
C5_Witness ==
  \E p \in Procs :
    /\ Done(p)
    /\ files[GENERIC] # "ok"
    /\ Len(tiers[p]) = 3
    /\ response[p].kind = "error"
    /\ evicted[p]

RemoteFailures ==
  {"network error", "status 404", "status 500", "invalid JSON"}

LocalFailures == {"missing", "malformed"}

\* C6: a network error, a 404 or other non-success status, an invalid JSON
\* body, a missing local file and a malformed local file each only move the
\* call on to the next tier; no tier call ever rejects, and a call in which
\* some tier yields a document returns that document in a success envelope.
C6_TierSkipsRecovered ==
  [][ \A p \in Procs :
        /\ (pc[p] = "afterRemote" /\ cause[p] \in RemoteFailures
              /\ pc'[p] # pc[p]) =>
             (pc'[p] = "afterLocal" /\ response'[p].kind # "error")
        /\ (pc[p] = "afterLocal" /\ cause[p] \in LocalFailures
              /\ pc'[p] # pc[p]) =>
             (pc'[p] = "afterGeneric" /\ response'[p].kind # "error")
        /\ instructions'[p] # Thrown
        /\ (pc'[p] = "done" /\ tiers'[p] # << >>
              /\ Last(tiers'[p]).out # NoDoc) =>
             response'[p] = resultEnvelope(Last(tiers'[p]).out) ]_vars

\* a fetch that produced nothing, then a malformed local file, then success
\* from generic.json
C6_Witness ==
  \E p \in Procs :
    /\ Done(p)
    /\ response[p].kind = "result"
    /\ Len(tiers[p]) = 3
    /\ tiers[p][1].fetched
    /\ normalizedDriverName(p) = AZURE_DEVOPS
    /\ files[AZURE_DEVOPS] = "malformed"

\* C7: while generic.json exists and parses, every call returns a success
\* envelope carrying a document, whatever the raw driver name.
C7_AlwaysDocument ==
  \A p \in Procs :
    (Done(p) /\ files[GENERIC] = "ok") =>
      (response[p].kind = "result" /\ response[p].result # NoDoc)

\* C8: two calls that both miss the cache, have the same canonical identifier
\* and meet the same tier contents return the same document.
C8_AliasesSameDocument ==
  \A p \in Procs : \A q \in Procs :
    (Done(p) /\ Done(q) /\ Cold(p) /\ Cold(q)
       /\ normalizedDriverName(p) = normalizedDriverName(q)
       /\ tiers[p][1].out = tiers[q][1].out) =>
      (response[p].kind = response[q].kind
         /\ response[p].result = response[q].result)

\* "VSTS" and "azure-devops" each resolved past the remote tier to the same
\* document
C8_Witness ==
  \E p \in Procs : \E q \in Procs :
    /\ Done(p) /\ Done(q) /\ Cold(p) /\ Cold(q)
    /\ driverName[p] = RAW_VSTS
    /\ driverName[q] = AZURE_DEVOPS
    /\ Len(tiers[p]) >= 2 /\ Len(tiers[q]) >= 2
    /\ response[p].kind = "result"
    /\ response[p].result = response[q].result

AZUREDEVOPSSERVICES ==
  <<"a","z","u","r","e","d","e","v","o","p","s","s","e","r","v","i","c","e","s">>

\* C9 as stated: "Azure DevOps Services", cold cache, no remote
\* configuration: the Azure DevOps identifier, azure-devops.json returned
\* from the local tier and cached for 15 minutes.
C9_AzureDevOpsServicesLocal ==
  \A p \in Procs :
    (Done(p) /\ driverName[p] = RAW_AZURE_DEVOPS_SERVICES /\ Cold(p)
       /\ ~apiConfigured(apiUrl, apiKey) /\ files[AZURE_DEVOPS] = "ok") =>
      /\ normalizedDriverName(p) = AZURE_DEVOPS
      /\ Last(tiers[p]).tier = "local"
      /\ response[p] = resultEnvelope(fileDocument(AZURE_DEVOPS))
      /\ stored[p].ttl = FifteenMinutes

\* C9 amended: "Azure DevOps Services", cold cache, no remote configuration,
\* generic.json intact: the name normalizes to "azuredevopsservices", which
\* is no alias; the local tier looks for azuredevopsservices.json and finds
\* nothing; generic.json is returned, cached for 5 minutes and logged with
\* source generic.
C9_AzureDevOpsServicesGeneric ==
  \A p \in Procs :
    (Done(p) /\ driverName[p] = RAW_AZURE_DEVOPS_SERVICES /\ Cold(p)
       /\ ~apiConfigured(apiUrl, apiKey) /\ files[GENERIC] = "ok") =>
      /\ normalizedDriverName(p) = AZUREDEVOPSSERVICES
      /\ Len(tiers[p]) = 3
      /\ ~tiers[p][1].fetched
      /\ tiers[p][2].out = NoDoc
      /\ response[p] = resultEnvelope(fileDocument(GENERIC))
      /\ stored[p].ttl = FiveMinutes
      /\ logged[p] = "generic"

\* that call, completed, with azure-devops.json intact and unused
C9_Witness ==
  \E p \in Procs :
    /\ Done(p)
    /\ driverName[p] = RAW_AZURE_DEVOPS_SERVICES
    /\ Cold(p)
    /\ ~apiConfigured(apiUrl, apiKey)
    /\ files[GENERIC] = "ok"
    /\ files[AZURE_DEVOPS] = "ok"
    /\ response[p].kind = "result"

\* what C10 says normalize returns
isLetterOrDigit(c) ==
  c \in Range(UpperChars) \cup Range(LowerChars) \cup Range(DigitChars)

claimedNormalize(s) ==
  LET stripped == SelectSeq(toLowerCase(s), isLetterOrDigit)
  IN  IF stripped \in DOMAIN DRIVER_ALIASES
      THEN DRIVER_ALIASES[stripped] ELSE stripped

\* C10: normalize is total from strings to strings: the lowercased input
\* without its non-alphanumeric characters, replaced by the alias table's
\* canonical identifier when it is an alias.
C10_NormalizeTotal ==
  output # NotNormalized =>
    (isString(output) /\ output = claimedNormalize(input))

\* a direct call of the named cache method is the step being taken
Calling(name) == lastOp'.op = name /\ lastOp'.at = now /\ now' = now

\* age of the entry under key k exceeds its ttl
Expired(c, k, t) == t - c[k].timestamp > c[k].ttl

\* every entry of c other than k is in d, unchanged, and d has no others
OthersKept(c, d, k) ==
  /\ (DOMAIN d) \ {k} = (DOMAIN c) \ {k}
  /\ \A x \in (DOMAIN c) \ {k} : d[x] = c[x]

\* C11: set(k, d, ttl) with ttl > 0 followed at once by get of a key that
\* differs from k at most by letter case returns d.
C11_RoundTrip ==
  [][ (lastOp.op = "set" /\ lastOp.at = now /\ lastOp.ttl > 0 /\ Calling("get")
         /\ toLowerCase(lastOp'.key) = toLowerCase(lastOp.key)) =>
        lastOp'.ret = lastOp.data ]_vars

\* get("JIRA") answered with the document just stored for one millisecond
\* under the key "jira"
C11_Witness ==
  /\ lastOp.op = "get"
  /\ lastOp.key = RAW_JIRA
  /\ lastOp.ret # NoDoc
  /\ JIRA \in DOMAIN cache
  /\ cache[JIRA].timestamp = now
  /\ cache[JIRA].ttl = 1
  /\ lastOp.ret = cache[JIRA].data

\* C12: get(k) returns the stored document while now - timestamp <= ttl; once
\* now - timestamp > ttl it returns absent and removes the entry, so that
\* size() is one less and every other entry is as before.
C12_Expiry ==
  [][ /\ Calling("get") =>
           LET k == toLowerCase(lastOp'.key)
           IN  IF k \notin DOMAIN cache
               THEN lastOp'.ret = NoDoc /\ cache' = cache
               ELSE IF now - cache[k].timestamp <= cache[k].ttl
               THEN lastOp'.ret = cache[k].data /\ cache' = cache
               ELSE /\ lastOp'.ret = NoDoc
                    /\ k \notin DOMAIN cache'
                    /\ Cardinality(DOMAIN cache') = Cardinality(DOMAIN cache) - 1
                    /\ OthersKept(cache, cache', k)
      /\ Calling("size") =>
           (lastOp'.n = Cardinality(DOMAIN cache) /\ cache' = cache) ]_vars

\* a get that found its entry expired and left the other entry in the map
C12_Witness ==
  /\ lastOp.op = "get"
  /\ lastOp.ret = NoDoc
  /\ lastOp.before = 2
  /\ Cardinality(DOMAIN cache) = 1
  /\ toLowerCase(lastOp.key) \notin DOMAIN cache

\* C13: set(k, d, ttl) replaces the entry of k by data d, timestamp now and
\* the given ttl whenever one is given, 0 included, the 15-minute default
\* only when none is given, and changes no other entry.
C13_SetReplacesEntry ==
  [][ Calling("set") =>
        LET k == toLowerCase(lastOp'.key)
        IN  /\ k \in DOMAIN cache'
            /\ cache'[k] =
                 [data |-> lastOp'.data,
                  timestamp |-> now,
                  ttl |-> IF lastOp'.ttl = NoTTL THEN FifteenMinutes
                          ELSE lastOp'.ttl]
            /\ OthersKept(cache, cache', k) ]_vars

\* C14: cleanup removes exactly the entries whose age exceeds their own ttl
\* and leaves the others as they are; when every entry is past its ttl the
\* size afterwards is 0.
C14_SweepExact ==
  [][ Calling("cleanup") =>
        /\ DOMAIN cache' \subseteq DOMAIN cache
        /\ \A k \in DOMAIN cache :
             IF now - cache[k].timestamp > cache[k].ttl
             THEN k \notin DOMAIN cache'
             ELSE k \in DOMAIN cache' /\ cache'[k] = cache[k]
        /\ (\A k \in DOMAIN cache : Expired(cache, k, now)) =>
             Cardinality(DOMAIN cache') = 0 ]_vars

\* a sweep that removed one of two entries and kept the younger one, which
\* by then was older than a clock step but within its own ttl
C14_Witness ==
  /\ lastOp.op = "cleanup"
  /\ lastOp.at = now
  /\ lastOp.before = 2
  /\ Cardinality(DOMAIN cache) = 1
  /\ \A k \in DOMAIN cache : now - cache[k].timestamp >= StepMs

\* the keys getInstructions can store under
CanonicalKeys == { NormTable[r] : r \in { x \in RawNames : isString(NormTable[x]) } }

\* no entry of the cache is past its ttl
NoneExpired == \A k \in DOMAIN cache : ~Expired(cache, k, now)

\* C15: the sweep keeps running, so an entry that has expired is removed (or
\* replaced by a fresh one) whether or not it is ever read again: again and
\* again the cache holds no expired entry, and an expired entry, once past
\* its ttl, stays past it for as long as it is in the cache.  A sweep leaves
\* no expired entry behind, however sweeps and calls interleave.
C15_ExpiredEventuallySwept ==
  /\ []<>NoneExpired
  /\ [][ (pc' = pc /\ now' = now /\ cache' # cache) =>
            \A k \in DOMAIN cache' : ~Expired(cache', k, now) ]_vars

\* an entry that a call stored is gone although no call's lookup evicted it
C15_Witness ==
  \E p \in Procs :
    /\ stored[p].seq > 0
    /\ normalizedDriverName(p) \notin DOMAIN cache
    /\ \A q \in Procs : ~evicted[q]

\* C16: whether or not a sweep ever ran, a call is answered from the cache
\* only by an entry whose age is within its ttl; a call that finds the entry
\* of its identifier expired removes it and starts the fallback chain.
C16_LazyExpiryBackstop ==
  [][ \A p \in Procs :
        (pc[p] = "idle" /\ pc'[p] # "idle") =>
          LET n == NormTable[driverName'[p]]
              k == toLowerCase(n)
          IN  /\ logged'[p] = "cache" =>
                   /\ k \in DOMAIN cache
                   /\ ~Expired(cache, k, now)
                   /\ response'[p] = resultEnvelope(cache[k].data)
              /\ (isString(n) /\ k \in DOMAIN cache /\ Expired(cache, k, now)) =>
                   /\ pc'[p] \in {"fetching", "afterRemote"}
                   /\ response'[p] = NoResponse
                   /\ logged'[p] # "cache"
                   /\ k \notin DOMAIN cache' ]_vars

\* a call whose lookup removed the expired entry and which then stored the
\* document the tiers gave it
C16_Witness ==
  \E p \in Procs :
    /\ Done(p)
    /\ evicted[p]
    /\ Cold(p)
    /\ stored[p].seq > 0
    /\ response[p] = resultEnvelope(stored[p].data)

\* C17: every key of the cache is a canonical identifier: the value
\* normalizeDriverName returned to a call that stored under it, and never an
\* alias of another identifier.
C17_KeysCanonical ==
  \A k \in DOMAIN cache :
    /\ k \in CanonicalKeys
    /\ \E p \in Procs : stored[p].seq > 0 /\ k = normalizeDriverName(driverName[p])
    /\ k \in DOMAIN DRIVER_ALIASES => DRIVER_ALIASES[k] = k

\* the document of a call for "VSTS" is in the cache under "azure-devops"
C17_Witness ==
  \E p \in Procs :
    /\ driverName[p] = RAW_VSTS
    /\ stored[p].seq > 0
    /\ DOMAIN cache = {AZURE_DEVOPS}
    /\ cache[AZURE_DEVOPS].data = stored[p].data

\* two calls for one identifier that both missed the cache and both stored
\* at the same clock value: the later writer looked up before the earlier
\* one stored
Racing(p, q) ==
  /\ p # q
  /\ Done(p) /\ Done(q)
  /\ normalizedDriverName(p) = normalizedDriverName(q)
  /\ stored[p].seq > 0 /\ stored[q].seq > 0
  /\ stored[p].timestamp = stored[q].timestamp

\* the CacheEntry call p wrote
EntryOf(p) ==
  [data |-> stored[p].data, timestamp |-> stored[p].timestamp, ttl |-> stored[p].ttl]

\* C18 as stated: when two calls for one identifier both miss the cache, the
\* entry left after both (document and ttl) is the same whichever wrote last.
C18_RacingWritesSameEntry ==
  \A p \in Procs : \A q \in Procs :
    Racing(p, q) =>
      (stored[p].data = stored[q].data /\ stored[p].ttl = stored[q].ttl)

\* C18 amended: every entry of the cache is one whole write (data, timestamp
\* and ttl of the same set) of the call that wrote last under its key; two
\* racing calls leave the same document and ttl when both got the same
\* document from their tiers, otherwise the entry is that of the last writer.
C18_LastWholeWriteWins ==
  /\ \A k \in DOMAIN cache :
       \E p \in Procs :
         /\ stored[p].seq > 0
         /\ normalizedDriverName(p) = k
         /\ ~Overwritten(p)
         /\ cache[k] = EntryOf(p)
         /\ cache[k].data = response[p].result
         /\ cache[k].ttl = IF response[p].result.driverName = GENERIC
                           THEN FiveMinutes ELSE FifteenMinutes
  /\ \A p \in Procs : \A q \in Procs :
       (Racing(p, q) /\ Last(tiers[p]).out = Last(tiers[q]).out) =>
         (stored[p].data = stored[q].data /\ stored[p].ttl = stored[q].ttl)

\* two racing calls stored different documents with different ttls, and the
\* cache holds the later one's entry
C18_Witness ==
  \E p \in Procs : \E q \in Procs :
    /\ Racing(p, q)
    /\ stored[p].seq < stored[q].seq
    /\ stored[p].data # stored[q].data
    /\ stored[p].ttl # stored[q].ttl
    /\ cache[normalizedDriverName(q)] = EntryOf(q)

\* C19: a step of a call for raw name r creates, replaces or removes at most
\* the entry keyed normalize(r); every other entry stays as it is.
C19_OtherEntriesUntouched ==
  [][ \A p \in Procs :
        (pc'[p] # pc[p] /\ cache' # cache) =>
          LET n == NormTable[driverName'[p]]
          IN  isString(n) /\ OthersKept(cache, cache', toLowerCase(n)) ]_vars

\* a call stored its document while the entry of another identifier, stored
\* earlier and by then expired, stayed in the cache
C19_Witness ==
  \E p \in Procs : \E q \in Procs :
    /\ normalizedDriverName(p) # normalizedDriverName(q)
    /\ stored[p].seq > 0 /\ stored[q].seq > 0
    /\ stored[p].timestamp < stored[q].timestamp
    /\ now = stored[q].timestamp
    /\ Expired(cache, normalizedDriverName(p), now)
    /\ cache[normalizedDriverName(p)] = EntryOf(p)
    /\ cache[normalizedDriverName(q)] = EntryOf(q)

\* the tier a completed call got its document from
SatisfiedBy(p) == IF tiers[p] = << >> THEN "cache" ELSE Last(tiers[p]).tier

\* C20 as stated: every successful call's tag is one of cache, remote, local,
\* generic and names the tier that satisfied it.
C20_TagNamesTier ==
  \A p \in Procs :
    (Done(p) /\ response[p].kind = "result") =>
      /\ logged[p] \in {"cache", "remote", "local", "generic"}
      /\ logged[p] = SatisfiedBy(p)

\* C20 amended: the envelope carries no tag; the log record of a successful
\* call has source 'cache' on a cache hit and otherwise 'generic' when the
\* returned document's driverName is 'generic' and 'specific' when not.  The
\* tier is told by the record the tier function wrote just before: source
\* 'api' for the remote tier, source 'local' with the canonical identifier
\* as driverName for the local tier, source 'local' with driverName
\* 'generic' for another canonical identifier for the generic tier.
C20_TagsInLogRecords ==
  [][ \A p \in Procs :
        (pc[p] # "done" /\ pc'[p] = "done" /\ response'[p].kind = "result") =>
          IF pc[p] = "idle"
          THEN logged'[p] = "cache" /\ tiers'[p] = << >>
          ELSE LET rec == tierRecord(pc[p], cause[p],
                            IF pc[p] = "afterGeneric" THEN GENERIC
                            ELSE normalizedDriverName(p))
                   tier == IF rec.source = "api" THEN "remote"
                           ELSE IF rec.driverName = normalizedDriverName(p)
                                THEN "local" ELSE "generic"
               IN  /\ logged'[p] =
                        IF response'[p].result.driverName = GENERIC
                        THEN "generic" ELSE "specific"
                   /\ rec.level = "info"
                   /\ rec.source \in {"api", "local"}
                   /\ Last(tiers'[p]).tier = tier ]_vars

\* a remote-tier result and a local-tier result, both logged 'specific'
C20_Witness ==
  \E p \in Procs : \E q \in Procs :
    /\ Done(p) /\ Done(q)
    /\ logged[p] = "specific" /\ logged[q] = "specific"
    /\ SatisfiedBy(p) = "remote"
    /\ SatisfiedBy(q) = "local"

\* C21: every error envelope carries the raw driver name that was requested
\* and the cause that made the generic document unavailable (file missing or
\* parse error).
C21_ErrorCarriesNameAndCause ==
  \A p \in Procs :
    (Done(p) /\ response[p].kind = "error") =>
      /\ response[p].name = driverName[p]
      /\ Len(tiers[p]) = 3 => response[p].message = localCause(files, GENERIC)

\* C22: without both the base URL and the credential no fetch is issued; the
\* remote tier returns nothing at once and the call goes on to the local
\* tier, with no error on that account.
C22_RemoteSkippedUnconfigured ==
  \A p \in Procs :
    /\ pc[p] = "fetching" => (apiUrl /\ apiKey)
    /\ \A i \in 1..Len(tiers[p]) : tiers[p][i].fetched => (apiUrl /\ apiKey)
    /\ (~(apiUrl /\ apiKey) /\ Cold(p)) =>
         /\ tiers[p][1] = [tier |-> "remote", fetched |-> FALSE, out |-> NoDoc]
         /\ Done(p) =>
              /\ Len(tiers[p]) >= 2
              /\ tiers[p][2].tier = "local"
              /\ (response[p].kind = "error" => Len(tiers[p]) = 3)

\* a call made with the URL set and the key missing, answered from the
\* local file without a fetch
C22_Witness ==
  \E p \in Procs :
    /\ apiUrl /\ ~apiKey
    /\ Done(p)
    /\ Len(tiers[p]) = 2
    /\ ~tiers[p][1].fetched
    /\ response[p] = resultEnvelope(tiers[p][2].out)

\* C24: the id of the envelope returned for a request is the id of that
\* request, null when it carried none, whether requests come one after the
\* other or several are in flight.
C24_ResponseIdIsRequestId ==
  \A p \in Procs : Done(p) => responseId[p] = requestId[p]

\* C27: every identifier the alias table maps to (the supported driver names
\* of the documentation) is a fixed point of normalizeDriverName.
C27_CanonicalFixedPoints ==
  (input \in CanonicalIds /\ output # NotNormalized) => output = input

\* C28: the identifier getInstructions passes on consists of lowercase
\* letters, digits and hyphens only, and the path of the local file built
\* from it is a file directly inside the driverInstructions directory.
C28_PathStaysInside ==
  (output # NotNormalized /\ isString(output)) =>
    /\ \A i \in 1..Len(output) : output[i] \in AZ09 \cup {"-"}
    /\ instructionsPath(output) =
         Append(InstructionsDir, output \o <<".", "j", "s", "o", "n">>)

\* "../../VSTS" normalized to "azure-devops"
C28_Witness ==
  /\ input = RAW_TRAVERSAL_UP
  /\ output = AZURE_DEVOPS
  /\ Len(instructionsPath(output)) = Len(InstructionsDir) + 1

\* C29: a get that returns a document leaves the entry as it is, timestamp
\* and ttl included, and a document is returned only within ttl of the
\* entry's timestamp, so reading an entry never lengthens its life.
C29_ReadsDoNotExtendLife ==
  [][ (Calling("get") /\ lastOp'.ret # NoDoc) =>
        LET k == toLowerCase(lastOp'.key)
        IN  /\ k \in DOMAIN cache /\ k \in DOMAIN cache'
            /\ cache'[k].timestamp = cache[k].timestamp
            /\ cache'[k].ttl = cache[k].ttl
            /\ cache' = cache
            /\ now - cache'[k].timestamp <= cache'[k].ttl ]_vars

\* a get, some time after the set, answered with the document while the
\* entry still carries the time of the set
C29_Witness ==
  /\ lastOp.op = "get"
  /\ lastOp.ret # NoDoc
  /\ lastOp.at = now
  /\ cache[toLowerCase(lastOp.key)].timestamp < now
  /\ now - cache[toLowerCase(lastOp.key)].timestamp = cache[toLowerCase(lastOp.key)].ttl


\* C23: when TRANSPORT_TYPE is unset the server starts the HTTP transport,
\* when it is "stdio" it starts the stdio transport, and in every case
\* exactly one of the two is started.
C23_TransportSelection ==
  started # {} =>
    /\ transportType = Undefined => started = {"http"}
    /\ transportType = STDIO => started = {"stdio"}
    /\ Cardinality(started) = 1
    /\ started \subseteq {"stdio", "http"}

\* the session of a transport is under way
Open(t) == created[t].initialized /\ ~created[t].closed

\* C25: a session id is in the transport map exactly from the moment its
\* session is initialized until its transport closes, every entry is stored
\* under the transport's own session id, and once the transport has closed a
\* request to /mcp with that session id is answered 400 and reaches no
\* transport.
C25_SessionLifecycle ==
  /\ [](/\ \A t \in 1..Len(created) :
             Open(t) <=> /\ truthy(created[t].sessionId)
                         /\ created[t].sessionId \in DOMAIN transports
                         /\ transports[created[t].sessionId] = t
        /\ \A k \in DOMAIN transports : created[transports[k]].sessionId = k)
  /\ [][\A t \in 1..Len(created) :
          (created[t].closed /\ lastReq'.sessionId = created[t].sessionId)
            => (lastReq'.status = 400 /\ lastReq'.routed = 0)]_vars

\* a closed session's id was presented again and refused, while another
\* session is open
C25_Witness ==
  \E t, u \in 1..Len(created) :
    /\ created[t].closed
    /\ lastReq.sessionId = created[t].sessionId
    /\ lastReq.status = 400
    /\ Open(u)

\* C26: a request to /mcp with a session id that is not in the transport
\* map, or a GET or DELETE without a session id, is answered 400, creates no
\* transport, connects nothing, reaches no transport and leaves the map as
\* it was.
C26_UnknownSessionRejected ==
  [][((lastReq'.sessionId # Undefined /\ lastReq'.sessionId \notin DOMAIN transports)
        \/ (lastReq'.method \in {"GET", "DELETE"} /\ lastReq'.sessionId = Undefined))
       => /\ lastReq'.status = 400
          /\ lastReq'.routed = 0
          /\ created' = created
          /\ connected' = connected
          /\ transports' = transports]_vars

\* the file the claim's procedure selects: own keys of the file map only
InFileMap(key) == key \in DOMAIN DRIVER_FILE_MAP

SelectedFile(name) ==
  IF name = Undefined \/ name = << >> THEN GENERIC_JSON
  ELSE IF InFileMap(trim(toLowerCase(name)))
  THEN DRIVER_FILE_MAP[trim(toLowerCase(name))]
  ELSE IF InFileMap(fileMapNormalizeDriverName(name))
  THEN DRIVER_FILE_MAP[fileMapNormalizeDriverName(name)]
  ELSE IF includes(toLowerCase(name), AZURE) /\ includes(toLowerCase(name), DEVOPS)
  THEN AZURE_DEVOPS_JSON
  ELSE GENERIC_JSON

\* the name matches none of the three rules
FallsBack(name) ==
  \/ name = Undefined
  \/ name = << >>
  \/ /\ ~InFileMap(trim(toLowerCase(name)))
     /\ ~InFileMap(fileMapNormalizeDriverName(name))
     /\ ~(includes(toLowerCase(name), AZURE) /\ includes(toLowerCase(name), DEVOPS))

\* C30: the file-map getInstructions selects its file by exact match of the
\* lowercased trimmed name, then of the normalized name, then by partial
\* match on "azure" and "devops", otherwise generic.json; it never throws,
\* succeeds exactly when the selected file exists and parses, and reports
\* driverMatched true exactly when it did not fall back.
C30_FileMapSelection ==
  fileMapResponse # NotCalled =>
    /\ ~fileMapResponse.threw
    /\ fileMapResponse.success <=> dataFiles[SelectedFile(fileMapName)] = "ok"
    /\ fileMapResponse.success =>
         /\ fileMapResponse.file = SelectedFile(fileMapName)
         /\ fileMapResponse.driverMatched <=> ~FallsBack(fileMapName)

====
